---- MODULE Spec2Model ----
(***************************************************************************)
(* paperspace-node: the job-creation packaging pipeline (lib/jobs/create), *)
(* the machine state poller (machines.waitfor, both the shipped lib body   *)
(* and the documented polling body) and the log-tail coordinator           *)
(* (maybeTailLogs), as state machines over their callbacks.                *)
(*                                                                         *)
(* JavaScript strings on which the code computes (toLowerCase, ===) are    *)
(* sequences of character codes; strings the code only compares with       *)
(* literals are TLA+ strings.                                              *)
(***************************************************************************)
EXTENDS Integers, Sequences, FiniteSets, TLC

\* ---------------------------------------------------------------- bounds

\* The poller has no retry limit; the model stops re-arming after this many
\* queries of one poll sequence.
MaxQueries == 3

\* The entries a workspace directory of the model holds at most.
MaxChildren == 3

\* The progress events one archive delivers at most.
MaxProgress == 2

\* How many jobs.create invocations may overlap.
MaxInvocations == 2

\* ------------------------------------------------------------- constants

INTERVAL == 5000

MAX_UPLOAD_SIZE == 104857600

\* ---------------------------------------------------------------- values

None == "none"

\* 'off', 'ready', 'serviceready' and other state strings, as character codes.
Str_off == <<111, 102, 102>>
Str_Off == <<79, 102, 102>>
Str_ready == <<114, 101, 97, 100, 121>>
Str_Ready == <<82, 101, 97, 100, 121>>
Str_serviceready == <<115, 101, 114, 118, 105, 99, 101, 114, 101, 97, 100, 121>>
Str_ServiceReady == <<83, 101, 114, 118, 105, 99, 101, 82, 101, 97, 100, 121>>
Str_on == <<111, 110>>
Str_starting == <<115, 116, 97, 114, 116, 105, 110, 103>>
\* '' and undefined: both falsy in `!params.state`.
Str_empty == << >>

\* Every spelling of s (given in lower case) that differs from it only in
\* letter case.
CaseVariants(s) ==
  { [i \in 1..Len(s) |-> IF m[i] THEN s[i] - 32 ELSE s[i]] :
      m \in [1..Len(s) -> BOOLEAN] }

\* What a caller may pass as params.state.
ParamStates ==
  CaseVariants(Str_off)
    \cup {Str_ready, Str_Ready, Str_serviceready, Str_ServiceReady, Str_on, Str_empty}

\* A machine record as the server returns it; NullMachine is a response
\* without a body.
NullMachine == [present |-> FALSE, state |-> Str_empty]

Machine(s) == [present |-> TRUE, state |-> s]

ServerMachines ==
  {NullMachine} \cup
  {Machine(s) : s \in {Str_off, Str_Off, Str_ready, Str_serviceready, Str_starting}}

QueryErrors == {"QueryError"}

VARIABLES
  \* machines.waitfor, the polling body
  w_called,     \* waitfor was invoked by the caller
  w_params,     \* params.state
  w_inflight,   \* method(waitfor, ...) requests awaiting their response
  w_timer,      \* setTimeout callbacks pending
  w_queries,    \* queries issued so far in this poll sequence
  w_hist,       \* the responses received, in order
  w_cb,         \* the invocations of the caller's cb, in order
  \* machines.waitfor, the lib body
  m_called,
  m_params,
  m_inflight,
  m_cb,
  \* jobs.create
  c_pc,         \* where the invocation stands: the continuation it waits for
  c_in,         \* the caller's params and the execution mode
  c_fileSize,   \* on-disk size of the artifact to upload; NoFile when none exists
  c_calls,      \* the remote operations started, in order
  c_resps,      \* the responses they delivered, in order
  c_waitRes,    \* the record jobs_waitfor delivered to _waitforCb
  c_console,    \* what the invocation printed of errors and warnings
  c_cb,         \* the invocations of the caller's cb, in order
  c_createRes,  \* the record the create request delivered to _methodCb
  c_store,      \* the project configuration store, key by key
  c_dirSize,    \* what directorySize handed to zipFunc: (err, totalSize)
  c_archive,    \* the archiver and its output stream
  c_bar,        \* the progress bar: total, prev_zipped, the ticks given
  c_config,     \* .ps_project and .ps_project/config.json in the cwd
  c_tmp,        \* what create did about a prior zip_file in the tmpdir
  c_gates,      \* how many times the upload size was checked
  c_params,     \* workspace and workspaceFileName as handed to method(create, ...)
  \* directorySize and archive.glob on one workspace directory
  s_pc,
  s_tree,
  s_result,
  s_sized,
  s_globbed,
  \* overlapping jobs.create invocations and the temp archives they write
  t_pc,         \* where each invocation stands
  t_src,        \* the workspace path each invocation was given
  t_file,       \* per temp archive: whether it exists, whose bytes it holds
  t_writers,    \* per temp archive: the invocations with an open write stream on it
  t_upload,     \* what each invocation found at its zip_file when its output closed
  \* project.init
  p_pc,
  p_in,         \* params.name, the mode, the cwd and what .ps_project is in it
  p_config,     \* .ps_project and config.json after init
  p_console,
  p_cb

wvars == <<w_called, w_params, w_inflight, w_timer, w_queries, w_hist, w_cb>>

mvars == <<m_called, m_params, m_inflight, m_cb>>

cvars ==
  <<c_pc, c_in, c_fileSize, c_calls, c_resps, c_waitRes, c_console, c_cb,
    c_createRes, c_store, c_dirSize, c_archive, c_bar,
    c_config, c_tmp, c_gates, c_params>>

svars == <<s_pc, s_tree, s_result, s_sized, s_globbed>>

tvars == <<t_pc, t_src, t_file, t_writers, t_upload>>

pvars == <<p_pc, p_in, p_config, p_console, p_cb>>

vars == <<wvars, mvars, cvars, svars, tvars, pvars>>

\* ------------------------------------------- machines.waitfor (polling)

\* String.prototype.toLowerCase on ASCII.
ToLowerCase(s) ==
  [i \in 1..Len(s) |-> IF s[i] \in 65..90 THEN s[i] + 32 ELSE s[i]]

\* The switch of the polling body: the legal target states.
LegalStates == {Str_ready, Str_serviceready, Str_off}

\* targetState of one waitfor invocation.
TargetState(state) == ToLowerCase(state)

\* A comparison with params.state as the caller spelled it.
MachineMatches_RawParam(machine, paramState) ==
  machine.present /\ machine.state = paramState

\* machine && machine.state === targetState
MachineMatches(machine, paramState) ==
  machine.present /\ machine.state = TargetState(paramState)

CbCall(err, res) == [err |-> err, res |-> res]

\* An error treated like a record that is not yet in the desired state.
Outcome_RetryOnError(err, machine, paramState) ==
  IF err = None /\ MachineMatches(machine, paramState) THEN "matched" ELSE "retry"

\* The branch _cb takes on one response.
Outcome(err, machine, paramState) ==
  IF err # None THEN "error"
  ELSE IF MachineMatches(machine, paramState) THEN "matched"
  ELSE "retry"

\* A switch without its default branch: the query goes out with targetState
\* undefined.
Waitfor_NoDefault(state) ==
  IF state = Str_empty
    THEN /\ w_cb' = Append(w_cb, CbCall("Missing required parameter state", NullMachine))
         /\ UNCHANGED <<w_inflight, w_queries>>
    ELSE /\ w_inflight' = w_inflight + 1
         /\ w_queries' = w_queries + 1
         /\ UNCHANGED w_cb

\* A poller that gives up at its third attempt.
Waitfor_MaxRetries(state) ==
  IF state = Str_empty
    THEN /\ w_cb' = Append(w_cb, CbCall("Missing required parameter state", NullMachine))
         /\ UNCHANGED <<w_inflight, w_queries>>
    ELSE IF TargetState(state) \in LegalStates /\ w_queries < 2
      THEN /\ w_inflight' = w_inflight + 1
           /\ w_queries' = w_queries + 1
           /\ UNCHANGED w_cb
      ELSE /\ w_cb' = Append(w_cb, CbCall("gave up", NullMachine))
           /\ UNCHANGED <<w_inflight, w_queries>>

\* The body of waitfor up to and including the method() call; it runs on the
\* caller's invocation and again on every timer expiry.
Waitfor(state) ==
  IF state = Str_empty
    THEN /\ w_cb' = Append(w_cb, CbCall("Missing required parameter state", NullMachine))
         /\ UNCHANGED <<w_inflight, w_queries>>
    ELSE IF TargetState(state) \in LegalStates
      THEN /\ w_inflight' = w_inflight + 1
           /\ w_queries' = w_queries + 1
           /\ UNCHANGED w_cb
      ELSE /\ w_cb' = Append(w_cb, CbCall("state must be either off, serviceready, or ready", NullMachine))
           /\ UNCHANGED <<w_inflight, w_queries>>

WaitforCall ==
  /\ ~w_called
  /\ \E s \in ParamStates :
       /\ w_called' = TRUE
       /\ w_params' = s
       /\ Waitfor(s)
  /\ UNCHANGED <<w_timer, w_hist, mvars, cvars, svars, tvars, pvars>>

\* _cb(err, machine): the response of one query.
WaitforCb ==
  /\ w_inflight > 0
  /\ \E err \in QueryErrors \cup {None}, machine \in ServerMachines :
       /\ w_hist' = Append(w_hist, [err |-> err, machine |-> machine])
       /\ w_inflight' = w_inflight - 1
       /\ LET o == Outcome(err, machine, w_params) IN
            IF o = "error"
              THEN /\ w_cb' = Append(w_cb, CbCall(err, NullMachine))
                   /\ UNCHANGED w_timer
            ELSE IF o = "matched"
              THEN /\ w_cb' = Append(w_cb, CbCall(None, machine))
                   /\ UNCHANGED w_timer
            ELSE /\ w_timer' = w_timer + 1
                 /\ UNCHANGED w_cb
  /\ UNCHANGED <<w_called, w_params, w_queries, mvars, cvars, svars, tvars, pvars>>

\* setInterval in place of setTimeout: the timer stays armed when it fires.
WaitforInterval_SetInterval ==
  /\ w_timer > 0
  /\ w_queries < MaxQueries
  /\ UNCHANGED w_timer
  /\ Waitfor(w_params)
  /\ UNCHANGED <<w_called, w_params, w_hist, mvars, cvars, svars, tvars, pvars>>

\* _interval(): the timer set INTERVAL ms after a non-matching response.
WaitforInterval ==
  /\ w_timer > 0
  /\ w_queries < MaxQueries
  /\ w_timer' = w_timer - 1
  /\ Waitfor(w_params)
  /\ UNCHANGED <<w_called, w_params, w_hist, mvars, cvars, svars, tvars, pvars>>

\* ------------------------------------------------ machines.waitfor (lib)

\* The machine states the lib body's doc comment lists.
LibStates ==
  {"Off", "OffWithUpdatesPending", "StartingUp", "StartingUpAndInstallingUpdates",
   "ShuttingDown", "ShuttingDownAndInstallingUpdates", "Restarting",
   "RestartingAndInstallingUpdates", "ServiceReady", "AgentReady", "Upgrading",
   "Destroyed"}

LibMachines == [id : {123}, state : LibStates]

NoMachine == [id |-> 0, state |-> None]

\* waitfor(params, cb) { return method(waitfor, params, cb); }
LibWaitforCall ==
  /\ ~m_called
  /\ \E s \in LibStates :
       /\ m_called' = TRUE
       /\ m_params' = s
       /\ m_inflight' = m_inflight + 1
  /\ UNCHANGED <<m_cb, wvars, cvars, svars, tvars, pvars>>

\* method() hands the response of GET /machines/:machineId to cb as it is.
LibMethodCb ==
  /\ m_inflight > 0
  /\ m_inflight' = m_inflight - 1
  /\ \/ \E err \in QueryErrors : m_cb' = Append(m_cb, CbCall(err, NoMachine))
     \/ \E machine \in LibMachines : m_cb' = Append(m_cb, CbCall(None, machine))
  /\ UNCHANGED <<m_called, m_params, wvars, cvars, svars, tvars, pvars>>

\* ---------------------------------------------------------- directorySize

\* cb(err): no size is passed.
NoSize == -1

\* What sizes.reduce yields once an element of sizes is undefined.
NotANumber == -2

\* The error of a failing fs.stat or fs.readdir; the code never looks into it.
FsError == "FsError"

\* A directory entry: its base name, what stat reports of it (kind, size),
\* which of its fs calls fails ("none", "stat", "readdir"), and for a
\* directory what readdir lists.
File(name, size, fail) ==
  [name |-> name, kind |-> "file", size |-> size, fail |-> fail, children |-> << >>]

Dir(name, size, fail, children) ==
  [name |-> name, kind |-> "dir", size |-> size, fail |-> fail, children |-> children]

\* The entries a workspace directory is filled from: plain and hidden files,
\* the version-control names as files and as directories, a file that
\* vanishes between readdir and stat, a directory that cannot be listed.
EntryPool ==
  { File("a", 10, "none"),
    File(".env", 20, "none"),
    File(".gitignore", 1000, "none"),
    File("gone", 10, "stat"),
    Dir(".git", 4096, "none", <<File("HEAD", 1000, "none")>>),
    Dir("sub", 4096, "none", <<File(".gitignore", 1000, "none"), File("b", 20, "none")>>),
    Dir(".gitignore", 4096, "none", <<File("x", 10, "none")>>),
    Dir("locked", 4096, "readdir", << >>) }

\* The sequences over S of length at most n.
SeqsUpTo(S, n) == UNION {[1..k -> S] : k \in 0..n}

\* readdir lists no name twice.
DistinctNames(children) ==
  \A i, j \in 1..Len(children) : children[i].name = children[j].name => i = j

\* The workspace directories: any name (its own may be a version-control
\* name), a stat size of 0 (Windows) or 4096, up to MaxChildren entries.
Trees ==
  { Dir(name, size, fail, children) :
      name \in {"work", ".git"}, size \in {0, 4096},
      fail \in {"none", "stat", "readdir"},
      children \in { c \in SeqsUpTo(EntryPool, MaxChildren) : DistinctNames(c) } }

\* Only .git is left out.
Excluded_GitOnly(name) == name = ".git"

\* name === '.git' || name === '.gitignore'
Excluded(name) == name = ".git" \/ name = ".gitignore"

RECURSIVE SumSizes(_)
\* sizes.reduce(function(a, b) { return a + b; }, 0)
SumSizes(sizes) ==
  IF sizes = << >> THEN 0
  ELSE IF Head(sizes) < 0 \/ SumSizes(Tail(sizes)) < 0 THEN NotANumber
  ELSE Head(sizes) + SumSizes(Tail(sizes))

RECURSIVE DirectorySize(_, _)
\* directorySize(_path, cb, size): the (err, size) its cb receives.  async.map
\* calls it with size undefined for every child and hands the sizes array to
\* its callback also when a child failed.
DirectorySize(node, size) ==
  IF Excluded(node.name) THEN [err |-> None, size |-> size]
  ELSE IF node.fail = "stat" THEN [err |-> FsError, size |-> NoSize]
  ELSE IF node.kind # "dir" THEN [err |-> None, size |-> size + node.size]
  ELSE IF node.fail = "readdir" THEN [err |-> FsError, size |-> NoSize]
  ELSE LET results == [i \in 1..Len(node.children) |-> DirectorySize(node.children[i], 0)]
           sizes == [i \in 1..Len(node.children) |-> results[i].size]
           failed == \E i \in 1..Len(node.children) : results[i].err # None
       IN  [err |-> IF failed THEN FsError ELSE None,
            size |-> IF SumSizes(sizes) < 0 THEN NotANumber
                     ELSE size + node.size + SumSizes(sizes)]

RECURSIVE SizedEntries(_, _)
\* The entries whose stat.size directorySize adds, as paths below the
\* workspace (<< >> is the workspace itself): the walk of DirectorySize.
SizedEntries(node, path) ==
  IF Excluded(node.name) \/ node.fail = "stat" THEN {}
  ELSE IF node.kind # "dir" \/ node.fail = "readdir" THEN {path}
  ELSE {path} \cup
       UNION { SizedEntries(node.children[i], Append(path, node.children[i].name)) :
                 i \in 1..Len(node.children) }

RECURSIVE Entries(_, _)
\* Every entry below a directory, as [path, node].
Entries(node, path) ==
  UNION { LET c == node.children[i]
              q == Append(path, c.name)
          IN  {[path |-> q, node |-> c]} \cup Entries(c, q) :
            i \in 1..Len(node.children) }

\* The ignore patterns together with dot: false, which leaves out every
\* dot-prefixed entry and what is beneath it.
GlobIgnored_NoDot(path) ==
  \E i \in 1..Len(path) : path[i] \in {".git", ".gitignore", ".env"}

\* The ignore patterns of archive.glob: '**/.git/**', '**/.git', '**/.gitignore'.
GlobIgnored(path) ==
  \/ \E i \in 1..(Len(path) - 1) : path[i] = ".git"
  \/ path[Len(path)] = ".git"
  \/ path[Len(path)] = ".gitignore"

\* archive.glob('**/*', {cwd: params.workspace, ignore: [...], dot: true}):
\* the paths below the workspace that go into the archive.
GlobEntries(root) ==
  { e.path : e \in { x \in Entries(root, << >>) : ~GlobIgnored(x.path) } }

\* A workspace directory is handed to directorySize and to archive.glob.
SizeStart ==
  /\ s_pc = "idle"
  /\ \E tree \in Trees : s_tree' = tree
  /\ s_pc' = "walking"
  /\ UNCHANGED <<s_result, s_sized, s_globbed, wvars, mvars, cvars, tvars, pvars>>

\* directorySize(params.workspace, zipFunc) has called zipFunc.
SizeDone ==
  /\ s_pc = "walking"
  /\ s_result' = DirectorySize(s_tree, 0)
  /\ s_sized' = SizedEntries(s_tree, << >>)
  /\ s_pc' = "sized"
  /\ UNCHANGED <<s_tree, s_globbed, wvars, mvars, cvars, tvars, pvars>>

\* zipFunc has queued the entries of the workspace: archive.glob.
GlobDone ==
  /\ s_pc = "sized"
  /\ s_globbed' = GlobEntries(s_tree)
  /\ s_pc' = "archived"
  /\ UNCHANGED <<s_tree, s_result, s_sized, wvars, mvars, cvars, tvars, pvars>>

\* ------------------------------------------------------------ jobs.create

NoFile == -1

\* On-disk sizes of a workspace zip or of a built archive, around the ceiling.
Sizes ==
  {0, MAX_UPLOAD_SIZE - 1, MAX_UPLOAD_SIZE, MAX_UPLOAD_SIZE + 1, 2 * MAX_UPLOAD_SIZE}

\* params.container after defaulting from the project store: a string, a
\* truthy non-string, or absent from both params and the store.
Containers == {"string", "object", "missing"}

\* params.workspace after defaulting (project store, then cwd):
\*   "object"   a truthy non-string          "root"  the string '/'
\*   "none"     the string 'none'            "link"  https:// or git+https://
\*   "absent"   a path that does not exist   "device" neither file nor directory
\*   "zip"      an existing .zip or .gz file
\*   "file"     any other existing file      "dir"   an existing directory
Workspaces == {"object", "root", "none", "link", "absent", "device", "zip", "file", "dir"}

\* The values params.init may hold: absent, a boolean, or the string the
\* command line gave ('--init false').
JsValues == {"undefined", "true", "false", "'false'"}

\* if (v): undefined and false are falsy, true and a non-empty string truthy.
Truthy(v) == v \in {"true", "'false'"}

\* process.cwd() as its path segments: the root directory, a project directory.
Root == << >>

ProjectDir == <<"home", "u", "proj">>

Cwds == {Root, ProjectDir}

\* path.basename: the last segment; of the root directory, the empty string.
Basename(p) == IF p = << >> THEN "" ELSE p[Len(p)]

\* The keys of the project configuration store that create writes.
ParamKeys == {"machineType", "container", "command", "workspace", "name", "dataset"}

StoreKeys == ParamKeys \cup {"lastJobId"}

\* Which of the storable parameters the caller passed (the others are
\* defaulted from the store): none, container and workspace, or all.
GivenSets == {{}, {"container", "workspace"}, ParamKeys}

\* global.paperspace_cli, params.json, params.tail ("unset": not a boolean),
\* and the parameters.  A non-string container or workspace is one the
\* caller passed; a container absent after defaulting was not passed.
\* Further: params.project or params.projectId ("name", "id", "none"),
\* params.init, process.cwd(), whether projectConfig.getProject() finds a
\* project, and what .ps_project and .ps_project/config.json are in the cwd.
\* The project inputs vary where the rest of the call is plain (no tailing,
\* a container, nothing to archive); elsewhere the caller names the project.
Inputs ==
  { in \in [cli : BOOLEAN, json : BOOLEAN, tail : {"unset", "true", "false"},
            container : Containers, workspace : Workspaces, given : GivenSets,
            project : {"none", "name", "id"}, init : JsValues, cwd : Cwds,
            stored : BOOLEAN, psdir : {"absent", "dir", "file"},
            cfg : {"absent", "file", "other"}] :
      /\ in.container = "object" => "container" \in in.given
      /\ in.container = "missing" => "container" \notin in.given
      /\ in.workspace = "object" => "workspace" \in in.given
      /\ in.cfg # "absent" => in.psdir = "dir"
      /\ in.stored => in.cfg = "file"
      /\ \/ /\ in.project = "name"
            /\ in.init = "undefined"
            /\ in.cwd = ProjectDir
            /\ ~in.stored
            /\ in.psdir = "absent"
         \/ /\ in.tail = "false"
            /\ in.container = "string"
            /\ in.workspace \in {"none", "absent"}
            /\ in.given = {} }

NoInput ==
  [cli |-> FALSE, json |-> FALSE, tail |-> "unset", container |-> "missing",
   workspace |-> "none", given |-> {}, project |-> "name", init |-> "undefined",
   cwd |-> ProjectDir, stored |-> FALSE, psdir |-> "absent", cfg |-> "absent"]

\* The store as the invocation finds it.
OldStore == [k \in StoreKeys |-> "old"]

\* projectConfig.setMachineType ... setDataset (lines 193-209): every
\* parameter the caller passed is written to the store, the others are read.
StoreParams(store, given) ==
  [k \in StoreKeys |-> IF k \in given THEN "new" ELSE store[k]]

\* projectConfig.setLastJobId(res.project, res.id)
SetLastJobId(store, id) == [store EXCEPT !["lastJobId"] = id]

NoArchive == [state |-> "none", finalized |-> FALSE, error |-> FALSE, warnings |-> {}]

\* seen: the progress.fs.processedBytes of the events so far.
NoBar == [total |-> NoSize, prev_zipped |-> 0, ticks |-> << >>, seen |-> << >>]

NoDirSize == [err |-> None, size |-> NoSize]

\* progress.fs.processedBytes as the archiver reports it.
ProcessedBytes == {10, 30}

\* The workspace directories create is run on: empty or with one entry,
\* readable or not, with an entry that vanishes before it is stat'ed.
WorkspaceTrees ==
  { Dir("work", 4096, fail, children) :
      fail \in {"none", "readdir"},
      children \in SeqsUpTo({File("a", 10, "none"), File("gone", 10, "stat")}, 1) }

\* A job record; NoJob is an absent (undefined or null) record, with
\* jobError and exitCode left out: the code only prints them.
NoJob == [present |-> FALSE, id |-> "", state |-> ""]

Job(id, state) == [present |-> TRUE, id |-> id, state |-> state]

CreatedJobs == {NoJob} \cup {Job(id, s) : id \in {"", "j123abc"}, s \in {"Pending", "Running"}}

WaitedJobs ==
  {NoJob} \cup
  {Job("j123abc", s) : s \in {"", "Pending", "Running", "Stopped", "Failed", "Error"}}

ShownJobs == {NoJob} \cup {Job("j123abc", s) : s \in {"", "Stopped", "Failed", "Error"}}

\* The error each remote operation may deliver.
StepError ==
  [create |-> "CreateError", waitfor |-> "WaitforError", logs |-> "LogsError",
   show |-> "ShowError"]

ErrContainerType == "Parameter container expected to be a string"
ErrWorkspaceType == "Parameter workspace expected to be a string"
ErrContainerMissing == "Missing required parameter container"
ErrRootWorkspace == "Error: cannot zip workspace from root directory."
ErrWorkspaceAbsent == "Error: cannot find workspace file or directory."
ErrWorkspaceKind == "Error: workspace is not a file or directory."
ErrTooLarge == "Error: zipped workspace cannot exceed MAX_UPLOAD_SIZE bytes."
ErrRootProject == "Error: cannot create project from root dir. Please create a project dir and run from there."
ErrPsDirFile == "Error: existing file with same name as .ps_project directory."
ErrConfigFile == "Error: config file not accessible: configFileName"

\* var tail = global.paperspace_cli && !json, unless params.tail is a boolean.
TailLogs(in) == IF in.tail = "unset" THEN in.cli /\ ~in.json ELSE in.tail = "true"

\* global.paperspace_cli && !json
Interactive(in) == in.cli /\ ~in.json

\* The error handed to cb in every mode.
IfCliPrintErrorOnly_AlwaysCb(in, err) ==
  /\ c_cb' = Append(c_cb, CbCall(err, NoJob))
  /\ UNCHANGED c_console
  /\ c_pc' = "returned"

\* ifCliPrintErrorOnly(err): print the message and cb(), or cb(err).
IfCliPrintErrorOnly(in, err) ==
  /\ IF Interactive(in)
       THEN /\ c_console' = Append(c_console, err)
            /\ c_cb' = Append(c_cb, CbCall(None, NoJob))
       ELSE /\ c_cb' = Append(c_cb, CbCall(err, NoJob))
            /\ UNCHANGED c_console
  /\ c_pc' = "returned"

\* No size check at all.
SizeExceeds_NoCheck(size) == FALSE

\* >= in place of >.
SizeExceeds_Ge(size) == size >= MAX_UPLOAD_SIZE

\* getFilesizeInBytes(file) > MAX_UPLOAD_SIZE
SizeExceeds(size) == size > MAX_UPLOAD_SIZE

\* The request made with params.workspace left in place.
InvokeCreate_KeepWorkspace(size, params) ==
  /\ c_calls' = Append(c_calls, [op |-> "create", file |-> size])
  /\ c_params' = [params EXCEPT !.workspace = "as-is"]
  /\ c_pc' = "invoking"
  /\ UNCHANGED <<c_console, c_cb>>

\* method(create, params, _methodCb) with the file params.workspace names
\* attached (NoFile when params.workspace was deleted).
InvokeCreate(size, params) ==
  /\ c_calls' = Append(c_calls, [op |-> "create", file |-> size])
  /\ c_params' = params
  /\ c_pc' = "invoking"
  /\ UNCHANGED <<c_console, c_cb>>

\* A size check that reports the oversized artifact and goes on to upload it.
GateAndInvoke_NoReturn(in, size, params) ==
  /\ c_gates' = c_gates + 1
  /\ c_calls' = Append(c_calls, [op |-> "create", file |-> size])
  /\ c_params' = params
  /\ c_pc' = "invoking"
  /\ IF SizeExceeds(size)
       THEN /\ c_cb' = Append(c_cb, CbCall(IF Interactive(in) THEN None ELSE ErrTooLarge, NoJob))
            /\ c_console' = IF Interactive(in) THEN Append(c_console, ErrTooLarge)
                                               ELSE c_console
       ELSE UNCHANGED <<c_console, c_cb>>

\* The size check and what follows it, on the zip branch and in
\* output.on('close').
GateAndInvoke(in, size, params) ==
  /\ c_gates' = c_gates + 1
  /\ IF SizeExceeds(size) THEN /\ IfCliPrintErrorOnly(in, ErrTooLarge)
                               /\ UNCHANGED <<c_calls, c_params>>
     ELSE InvokeCreate(size, params)

\* zipFunc(err, totalSize): the output stream and the archiver are created,
\* the listeners attached, the archive piped, its entries queued (glob or
\* file) and finalize() called; err is not looked at.
ZipFunc(totalSize) ==
  /\ c_archive' = [state |-> "open", finalized |-> TRUE, error |-> FALSE, warnings |-> {}]
  /\ c_bar' = [total |-> totalSize, prev_zipped |-> 0, ticks |-> << >>, seen |-> << >>]
  /\ c_pc' = "archiving"

\* var init = true; if (params.init) init = params.init;
InitFlag(v) == IF Truthy(v) THEN v ELSE "true"

\* .ps_project, config.json and the project name it holds, as create finds
\* them and before create has run at all.
PriorConfig(in) ==
  [psdir |-> in.psdir, cfg |-> in.cfg, project |-> IF in.stored THEN "stored" ELSE None]

NoConfig == [psdir |-> "absent", cfg |-> "absent", project |-> None]

NoParams == [workspace |-> "unset", workspaceFileName |-> "unset"]

\* Lines 158-188: the project name is defaulted from the project store or
\* from the name of the cwd, and in interactive mode .ps_project/config.json
\* is written with it.  Yields the error raised, if any, and what
\* .ps_project holds afterwards.
ProjectDefaulting(in) ==
  LET prior == PriorConfig(in)
      project == Basename(in.cwd)
  IN  IF in.project # "none" \/ in.stored
        THEN [err |-> None, config |-> prior]
      ELSE IF project = "/"
        THEN [err |-> ErrRootProject, config |-> prior]
      ELSE IF ~(Interactive(in) /\ Truthy(InitFlag(in.init)))
        THEN [err |-> None, config |-> prior]
      ELSE IF in.psdir = "file"
        THEN [err |-> ErrPsDirFile, config |-> prior]
      ELSE IF in.psdir = "dir" /\ in.cfg = "other"
        THEN [err |-> ErrConfigFile, config |-> prior]
      ELSE [err |-> None,
            config |-> [psdir |-> "dir", cfg |-> "file", project |-> project]]

\* create(params, cb) up to its return: project defaulting (lines 158-188),
\* parameter checks (lines 190-213, 256-269), workspace routing, and for a
\* local workspace either the size check of an existing zip or the start of
\* archiving (a prior zip_file is deleted, zipFunc sets the archive up and
\* finalizes it; a directory is sized first).  The container and workspace
\* inputs are the parameters as they stand after the project-store
\* defaulting of lines 193-209; the parameters the caller passed are written
\* to the store right after the type checks.
Create ==
  /\ c_pc = "idle"
  /\ \E in \in Inputs, size \in Sizes :
       /\ c_in' = in
       /\ c_config' = ProjectDefaulting(in).config
       /\ IF ProjectDefaulting(in).err # None
            THEN /\ IfCliPrintErrorOnly(in, ProjectDefaulting(in).err)
                 /\ UNCHANGED <<c_calls, c_fileSize, c_store, c_archive, c_bar,
                                c_tmp, c_gates, c_params>>
          ELSE IF in.container = "object"
            THEN /\ IfCliPrintErrorOnly(in, ErrContainerType)
                 /\ UNCHANGED <<c_calls, c_fileSize, c_store, c_archive, c_bar,
                                c_tmp, c_gates, c_params>>
          ELSE IF in.workspace = "object"
            THEN /\ IfCliPrintErrorOnly(in, ErrWorkspaceType)
                 /\ UNCHANGED <<c_calls, c_fileSize, c_store, c_archive, c_bar,
                                c_tmp, c_gates, c_params>>
          ELSE /\ c_store' = StoreParams(c_store, in.given)
               /\ IF in.container = "missing"
                    THEN /\ IfCliPrintErrorOnly(in, ErrContainerMissing)
                         /\ UNCHANGED <<c_calls, c_fileSize, c_archive, c_bar,
                                        c_tmp, c_gates, c_params>>
                  ELSE IF in.workspace = "root"
                    THEN /\ IfCliPrintErrorOnly(in, ErrRootWorkspace)
                         /\ UNCHANGED <<c_calls, c_fileSize, c_archive, c_bar,
                                        c_tmp, c_gates, c_params>>
                  ELSE IF in.workspace = "none"
                    THEN /\ InvokeCreate(NoFile, [workspace |-> "deleted",
                                                  workspaceFileName |-> "unset"])
                         /\ UNCHANGED <<c_fileSize, c_archive, c_bar, c_tmp, c_gates>>
                  ELSE IF in.workspace = "link"
                    THEN /\ InvokeCreate(NoFile, [workspace |-> "deleted",
                                                  workspaceFileName |-> "link"])
                         /\ UNCHANGED <<c_fileSize, c_archive, c_bar, c_tmp, c_gates>>
                  ELSE IF in.workspace = "absent"
                    THEN /\ IfCliPrintErrorOnly(in, ErrWorkspaceAbsent)
                         /\ UNCHANGED <<c_calls, c_fileSize, c_archive, c_bar,
                                        c_tmp, c_gates, c_params>>
                  ELSE IF in.workspace = "device"
                    THEN /\ IfCliPrintErrorOnly(in, ErrWorkspaceKind)
                         /\ UNCHANGED <<c_calls, c_fileSize, c_archive, c_bar,
                                        c_tmp, c_gates, c_params>>
                  ELSE IF in.workspace = "zip"
                    THEN /\ c_fileSize' = size
                         /\ GateAndInvoke(in, size, [workspace |-> "as-is",
                                                     workspaceFileName |-> "basename"])
                         /\ UNCHANGED <<c_archive, c_bar, c_tmp>>
                  ELSE IF in.workspace = "dir"
                    THEN /\ c_tmp' = "cleared"
                         /\ c_pc' = "sizing"
                         /\ UNCHANGED <<c_calls, c_fileSize, c_console, c_cb,
                                        c_archive, c_bar, c_gates, c_params>>
                  ELSE /\ c_tmp' = "cleared"
                       /\ ZipFunc(size)
                       /\ UNCHANGED <<c_calls, c_fileSize, c_console, c_cb,
                                      c_gates, c_params>>
  /\ UNCHANGED <<c_resps, c_waitRes, c_createRes, c_dirSize, wvars, mvars, svars, tvars, pvars>>

\* directorySize's callback is zipFunc(err, totalSize): it ignores err and
\* starts the archive either way.
DirectorySizeCb ==
  /\ c_pc = "sizing"
  /\ \E tree \in WorkspaceTrees :
       LET r == DirectorySize(tree, 0) IN
         /\ c_dirSize' = r
         /\ ZipFunc(r.size)
  /\ UNCHANGED <<c_in, c_fileSize, c_calls, c_resps, c_waitRes, c_console, c_cb,
                 c_createRes, c_store, c_config, c_tmp, c_gates, c_params, wvars, mvars, svars, tvars, pvars>>

\* archive.on('error'): console.error and nothing else.
ArchiveError ==
  /\ c_pc = "archiving"
  /\ "Error while zipping" \notin {c_console[i] : i \in 1..Len(c_console)}
  /\ c_console' = Append(c_console, "Error while zipping")
  /\ c_archive' = [c_archive EXCEPT !.error = TRUE]
  /\ UNCHANGED <<c_pc, c_in, c_fileSize, c_calls, c_resps, c_waitRes, c_cb,
                 c_createRes, c_store, c_config, c_tmp, c_gates, c_params, c_dirSize, c_bar, wvars, mvars, svars, tvars, pvars>>

\* A listener that throws whatever the warning is.
ArchiveWarning_ThrowAll ==
  /\ c_pc = "archiving"
  /\ \E code \in {"ENOENT", "EOTHER"} :
       c_archive' = [c_archive EXCEPT !.warnings = @ \cup {code}]
  /\ c_pc' = "crashed"
  /\ UNCHANGED <<c_console, c_in, c_fileSize, c_calls, c_resps, c_waitRes, c_cb,
                 c_createRes, c_store, c_config, c_tmp, c_gates, c_params, c_dirSize, c_bar, wvars, mvars, svars, tvars, pvars>>

\* archive.on('warning'): ENOENT is printed, anything else is thrown from the
\* listener.
ArchiveWarning ==
  /\ c_pc = "archiving"
  /\ \/ /\ "ENOENT" \notin {c_console[i] : i \in 1..Len(c_console)}
        /\ c_console' = Append(c_console, "ENOENT")
        /\ c_archive' = [c_archive EXCEPT !.warnings = @ \cup {"ENOENT"}]
        /\ UNCHANGED c_pc
     \/ /\ c_pc' = "crashed"
        /\ c_archive' = [c_archive EXCEPT !.warnings = @ \cup {"EOTHER"}]
        /\ UNCHANGED c_console
  /\ UNCHANGED <<c_in, c_fileSize, c_calls, c_resps, c_waitRes, c_cb,
                 c_createRes, c_store, c_config, c_tmp, c_gates, c_params, c_dirSize, c_bar, wvars, mvars, svars, tvars, pvars>>

\* A progress listener that takes the last byte processed for the end of
\* the archive and uploads.
ArchiveProgress_UploadsAtTotal ==
  /\ c_pc = "archiving"
  /\ c_in.workspace = "dir"
  /\ Interactive(c_in)
  /\ Len(c_bar.ticks) < MaxProgress
  /\ \E processed \in ProcessedBytes :
       /\ c_bar' = [c_bar EXCEPT !.ticks = Append(@, processed - c_bar.prev_zipped),
                                 !.prev_zipped = processed,
                                 !.seen = Append(@, processed)]
       /\ IF processed = 30
            THEN InvokeCreate(0, [workspace |-> "zip_file", workspaceFileName |-> "basename"])
            ELSE UNCHANGED <<c_pc, c_calls, c_console, c_cb, c_params>>
  /\ UNCHANGED <<c_in, c_fileSize, c_resps, c_waitRes, c_createRes, c_store,
                 c_config, c_tmp, c_gates, c_dirSize, c_archive, wvars, mvars, svars, tvars, pvars>>

\* A progress listener that ticks the bar by the cumulative count.
ArchiveProgress_TickCumulative ==
  /\ c_pc = "archiving"
  /\ c_in.workspace = "dir"
  /\ Interactive(c_in)
  /\ Len(c_bar.ticks) < MaxProgress
  /\ \E processed \in ProcessedBytes :
       c_bar' = [c_bar EXCEPT !.ticks = Append(@, processed),
                              !.prev_zipped = processed,
                              !.seen = Append(@, processed)]
  /\ UNCHANGED <<c_pc, c_in, c_fileSize, c_calls, c_resps, c_waitRes, c_console, c_cb,
                 c_createRes, c_store, c_config, c_tmp, c_gates, c_params,
                 c_dirSize, c_archive, wvars, mvars, svars, tvars, pvars>>

\* archive.on('progress'), attached only for a directory in interactive
\* mode: the bar is ticked by the bytes processed since the last event.
ArchiveProgress ==
  /\ c_pc = "archiving"
  /\ c_in.workspace = "dir"
  /\ Interactive(c_in)
  /\ Len(c_bar.ticks) < MaxProgress
  /\ \E processed \in ProcessedBytes :
       c_bar' = [c_bar EXCEPT !.ticks = Append(@, processed - c_bar.prev_zipped),
                              !.prev_zipped = processed,
                              !.seen = Append(@, processed)]
  /\ UNCHANGED <<c_pc, c_in, c_fileSize, c_calls, c_resps, c_waitRes, c_console, c_cb,
                 c_createRes, c_store, c_config, c_tmp, c_gates, c_params, c_dirSize, c_archive, wvars, mvars, svars, tvars, pvars>>

\* output.on('close'): the archive is on disk with some size.
OutputClose ==
  /\ c_pc = "archiving"
  /\ c_archive' = [c_archive EXCEPT !.state = "closed"]
  /\ \E size \in Sizes :
       /\ c_fileSize' = size
       /\ GateAndInvoke(c_in, size, [workspace |-> "zip_file", workspaceFileName |-> "basename"])
  /\ UNCHANGED <<c_in, c_resps, c_waitRes, c_createRes, c_store, c_config, c_tmp,
                 c_dirSize, c_bar, wvars, mvars, svars, tvars, pvars>>

\* Tailing decided by the tail flag alone, whatever the mode.
MaybeTailLogs_TailFlagOnly(in, res) ==
  IF TailLogs(in)
    THEN IF ~res.present
           THEN /\ c_pc' = "crashed"
                /\ UNCHANGED <<c_calls, c_cb>>
         ELSE IF res.id = ""
           THEN /\ c_pc' = "returned"
                /\ UNCHANGED <<c_calls, c_cb>>
         ELSE /\ c_calls' = Append(c_calls, [op |-> "waitfor", file |-> NoFile])
              /\ c_pc' = "waitfor"
              /\ UNCHANGED c_cb
    ELSE /\ c_cb' = Append(c_cb, CbCall(None, res))
         /\ c_pc' = "returned"
         /\ UNCHANGED c_calls

\* maybeTailLogs(err, res) as _methodCb calls it, with no error.
MaybeTailLogs(in, res) ==
  IF Interactive(in) /\ TailLogs(in)
    THEN IF ~res.present
           \* res.id of an absent record: a TypeError out of the callback
           THEN /\ c_pc' = "crashed"
                /\ UNCHANGED <<c_calls, c_cb>>
         ELSE IF res.id = ""
           \* return new Error(...): nobody receives it
           THEN /\ c_pc' = "returned"
                /\ UNCHANGED <<c_calls, c_cb>>
         ELSE /\ c_calls' = Append(c_calls, [op |-> "waitfor", file |-> NoFile])
              /\ c_pc' = "waitfor"
              /\ UNCHANGED c_cb
    ELSE /\ c_cb' = Append(c_cb, CbCall(None, res))
         /\ c_pc' = "returned"
         /\ UNCHANGED c_calls

\* _methodCb(err, res): the response of the create request.
MethodCb ==
  /\ c_pc = "invoking"
  /\ \/ /\ c_resps' = Append(c_resps, [op |-> "create", err |-> StepError.create])
        /\ c_cb' = Append(c_cb, CbCall(StepError.create, NoJob))
        /\ c_pc' = "returned"
        /\ UNCHANGED c_calls
        /\ UNCHANGED <<c_createRes, c_store>>
     \/ \E res \in CreatedJobs :
          /\ c_resps' = Append(c_resps, [op |-> "create", err |-> None])
          /\ c_createRes' = res
          /\ c_store' = IF res.present THEN SetLastJobId(c_store, res.id) ELSE c_store
          /\ MaybeTailLogs(c_in, res)
  /\ UNCHANGED <<c_in, c_fileSize, c_waitRes, c_console, c_dirSize, c_archive, c_bar,
                 c_config, c_tmp, c_gates, c_params, wvars, mvars, svars, tvars, pvars>>

\* Logs only for a job that is running.
LogsFollow_RunningOnly(state) == state = "Running"

\* The states after which _waitforCb goes on to the logs:
\* !(state !== 'Stopped' && state !== 'Failed' && state !== 'Running')
LogsFollow(state) == state \in {"Stopped", "Failed", "Running"}

\* _waitforCb(err, res): jobs_waitfor({state: 'Running'}) has answered.
TailWaitforCb ==
  /\ c_pc = "waitfor"
  /\ \/ /\ c_resps' = Append(c_resps, [op |-> "waitfor", err |-> StepError.waitfor])
        /\ c_cb' = Append(c_cb, CbCall(StepError.waitfor, NoJob))
        /\ c_pc' = "returned"
        /\ UNCHANGED <<c_calls, c_waitRes>>
     \/ \E res \in WaitedJobs :
          /\ c_resps' = Append(c_resps, [op |-> "waitfor", err |-> None])
          /\ c_waitRes' = res
          /\ IF ~res.present
               THEN /\ c_pc' = "crashed"
                    /\ UNCHANGED <<c_calls, c_cb>>
             ELSE IF res.state = ""
               THEN /\ c_pc' = "returned"
                    /\ UNCHANGED <<c_calls, c_cb>>
             ELSE IF ~LogsFollow(res.state)
               THEN /\ c_cb' = Append(c_cb, CbCall(None, NoJob))
                    /\ c_pc' = "returned"
                    /\ UNCHANGED c_calls
             ELSE /\ c_calls' = Append(c_calls, [op |-> "logs", file |-> NoFile])
                  /\ c_pc' = "logs"
                  /\ UNCHANGED c_cb
  /\ UNCHANGED <<c_in, c_fileSize, c_console, c_createRes, c_store, c_config, c_tmp, c_gates, c_params,
                 c_dirSize, c_archive, c_bar, wvars, mvars, svars, tvars, pvars>>

\* A _logsCb that goes on to show whatever the logs request delivered.
TailLogsCb_IgnoreErr ==
  /\ c_pc = "logs"
  /\ \E err \in {None, StepError.logs} :
       c_resps' = Append(c_resps, [op |-> "logs", err |-> err])
  /\ c_calls' = Append(c_calls, [op |-> "show", file |-> NoFile])
  /\ c_pc' = "show"
  /\ UNCHANGED <<c_cb, c_in, c_fileSize, c_waitRes, c_console, c_createRes, c_store, c_config, c_tmp, c_gates, c_params,
                 c_dirSize, c_archive, c_bar, wvars, mvars, svars, tvars, pvars>>

\* _logsCb(err): jobs_logs({tail: true}) has ended.
TailLogsCb ==
  /\ c_pc = "logs"
  /\ \/ /\ c_resps' = Append(c_resps, [op |-> "logs", err |-> StepError.logs])
        /\ c_cb' = Append(c_cb, CbCall(StepError.logs, NoJob))
        /\ c_pc' = "returned"
        /\ UNCHANGED c_calls
     \/ /\ c_resps' = Append(c_resps, [op |-> "logs", err |-> None])
        /\ c_calls' = Append(c_calls, [op |-> "show", file |-> NoFile])
        /\ c_pc' = "show"
        /\ UNCHANGED c_cb
  /\ UNCHANGED <<c_in, c_fileSize, c_waitRes, c_console, c_createRes, c_store, c_config, c_tmp, c_gates, c_params,
                 c_dirSize, c_archive, c_bar, wvars, mvars, svars, tvars, pvars>>

\* _showCb(err, res): jobs_show has answered.
TailShowCb ==
  /\ c_pc = "show"
  /\ \/ /\ c_resps' = Append(c_resps, [op |-> "show", err |-> StepError.show])
        /\ c_cb' = Append(c_cb, CbCall(StepError.show, NoJob))
        /\ c_pc' = "returned"
     \/ \E res \in ShownJobs :
          /\ c_resps' = Append(c_resps, [op |-> "show", err |-> None])
          /\ IF ~res.present
               THEN /\ c_pc' = "crashed"
                    /\ UNCHANGED c_cb
             ELSE IF res.state = ""
               THEN /\ c_pc' = "returned"
                    /\ UNCHANGED c_cb
             ELSE /\ c_cb' = Append(c_cb, CbCall(None, NoJob))
                  /\ c_pc' = "returned"
  /\ UNCHANGED <<c_in, c_fileSize, c_calls, c_waitRes, c_console, c_createRes, c_store, c_config, c_tmp, c_gates, c_params,
                 c_dirSize, c_archive, c_bar, wvars, mvars, svars, tvars, pvars>>

\* ------------------------------------------- temp archives, project.init

\* The jobs.create invocations that may overlap.
Invocations == 1..MaxInvocations

\* Workspace paths: two directories of the same name in different places,
\* and one of another name.
TempSources == {<<"a", "proj">>, <<"b", "proj">>, <<"a", "data">>}

\* path.resolve(os.tmpdir(), path.basename(params.workspace) + '.zip'),
\* identified by the base name it is built from.
ZipFile(src) == Basename(src)

ZipFiles == {ZipFile(src) : src \in TempSources}

\* A temp archive that does not exist.
NoTemp == [exists |-> FALSE, wrote |-> {}]

\* No two invocations on the same source path overlap.
Serialized(i, src) ==
  \A j \in Invocations \ {i} : t_pc[j] \in {"idle", "done"} \/ t_src[j] # src

\* fs.createWriteStream(zip_file) by invocation i: the file is created, or
\* truncated if it is there; what streams still open on it write stays.
CreateWriteStream(file, writers, i) ==
  [exists |-> TRUE,
   wrote |-> IF file.exists THEN (file.wrote \cap writers) \cup {i} ELSE {i}]

\* create up to zipFunc or directorySize (lines 272-365): zip_file is named
\* after the workspace's base name, a prior zip_file is deleted, and a plain
\* file is zipped at once while a directory is sized first.
TempBegin(i) ==
  /\ t_pc[i] = "idle"
  /\ \E src \in TempSources, kind \in {"file", "dir"} :
       /\ Serialized(i, src)
       /\ t_src' = [t_src EXCEPT ![i] = src]
       /\ IF kind = "dir"
            THEN /\ t_file' = [t_file EXCEPT ![ZipFile(src)] = NoTemp]
                 /\ t_pc' = [t_pc EXCEPT ![i] = "sizing"]
                 /\ UNCHANGED t_writers
            ELSE /\ t_file' = [t_file EXCEPT ![ZipFile(src)] =
                                 CreateWriteStream(NoTemp, t_writers[ZipFile(src)], i)]
                 /\ t_writers' = [t_writers EXCEPT ![ZipFile(src)] = @ \cup {i}]
                 /\ t_pc' = [t_pc EXCEPT ![i] = "writing"]
  /\ UNCHANGED <<t_upload, wvars, mvars, cvars, svars, pvars>>

\* zipFunc as directorySize's callback: the output stream is opened.
TempZipFunc(i) ==
  /\ t_pc[i] = "sizing"
  /\ LET f == ZipFile(t_src[i]) IN
       /\ t_file' = [t_file EXCEPT ![f] = CreateWriteStream(@, t_writers[f], i)]
       /\ t_writers' = [t_writers EXCEPT ![f] = @ \cup {i}]
  /\ t_pc' = [t_pc EXCEPT ![i] = "writing"]
  /\ UNCHANGED <<t_src, t_upload, wvars, mvars, cvars, svars, pvars>>

\* output.on('close'): the stream is closed, and what is at zip_file now is
\* measured and handed to method(create, ...).
TempClose(i) ==
  /\ t_pc[i] = "writing"
  /\ LET f == ZipFile(t_src[i]) IN
       /\ t_writers' = [t_writers EXCEPT ![f] = @ \ {i}]
       /\ t_upload' = [t_upload EXCEPT ![i] = t_file[f]]
  /\ t_pc' = [t_pc EXCEPT ![i] = "uploading"]
  /\ UNCHANGED <<t_src, t_file, wvars, mvars, cvars, svars, pvars>>

\* _methodCb: the create request has been answered.
TempDone(i) ==
  /\ t_pc[i] = "uploading"
  /\ t_pc' = [t_pc EXCEPT ![i] = "done"]
  /\ UNCHANGED <<t_src, t_file, t_writers, t_upload, wvars, mvars, cvars, svars, pvars>>

\* project.init's inputs: global.paperspace_cli, params.name ("" when not
\* given), the cwd, and what .ps_project and its config.json are, with the
\* project name an existing config.json holds.
InitCwds == {Root, ProjectDir, <<"srv", "data">>}

InitInputs ==
  { in \in [cli : BOOLEAN, name : {"", "myproject", "other"}, cwd : InitCwds,
            psdir : {"absent", "dir", "file"}, cfg : {"absent", "file", "other"},
            project : {None, "old", "proj"}] :
      /\ in.cfg # "absent" => in.psdir = "dir"
      /\ in.project # None <=> in.cfg = "file" }

NoInitInput ==
  [cli |-> FALSE, name |-> "", cwd |-> ProjectDir, psdir |-> "absent",
   cfg |-> "absent", project |-> None]

ErrInitRootProject == "Error: cannot create project from root dir. Please create a project dir and run from there, or use the --name option."

\* What init finds in the cwd.
InitPriorConfig(in) == [psdir |-> in.psdir, cfg |-> in.cfg, project |-> in.project]

\* init's ifCliPrintErrorOnly(err): it looks at global.paperspace_cli only.
InitError(in, err) ==
  /\ IF in.cli
       THEN /\ p_console' = Append(p_console, err)
            /\ p_cb' = Append(p_cb, CbCall(None, None))
       ELSE /\ p_cb' = Append(p_cb, CbCall(err, None))
            /\ UNCHANGED p_console
  /\ p_config' = InitPriorConfig(in)

\* init(params, cb), lines 71-108.
ProjectInit ==
  /\ p_pc = "idle"
  /\ \E in \in InitInputs :
       LET name == IF in.name = "" THEN Basename(in.cwd) ELSE in.name IN
         /\ p_in' = in
         /\ IF in.name = "" /\ name = "/"
              THEN InitError(in, ErrInitRootProject)
            ELSE IF in.psdir = "file"
              THEN InitError(in, ErrPsDirFile)
            ELSE IF in.psdir = "dir" /\ in.cfg = "other"
              THEN InitError(in, ErrConfigFile)
            ELSE /\ p_config' = [psdir |-> "dir", cfg |-> "file", project |-> name]
                 /\ IF in.cli
                      THEN /\ p_console' = Append(p_console, "Project name: ")
                           /\ p_cb' = Append(p_cb, CbCall(None, None))
                      ELSE /\ p_cb' = Append(p_cb, CbCall(None, [project |-> name]))
                           /\ UNCHANGED p_console
  /\ p_pc' = "returned"
  /\ UNCHANGED <<wvars, mvars, cvars, svars, tvars>>

\* --------------------------------------------------------- specifications

Init ==
  /\ w_called = FALSE
  /\ w_params = Str_empty
  /\ w_inflight = 0
  /\ w_timer = 0
  /\ w_queries = 0
  /\ w_hist = << >>
  /\ w_cb = << >>
  /\ m_called = FALSE
  /\ m_params = None
  /\ m_inflight = 0
  /\ m_cb = << >>
  /\ c_pc = "idle"
  /\ c_in = NoInput
  /\ c_fileSize = NoFile
  /\ c_calls = << >>
  /\ c_resps = << >>
  /\ c_waitRes = NoJob
  /\ c_console = << >>
  /\ c_cb = << >>
  /\ c_createRes = NoJob
  /\ c_store = OldStore
  /\ c_dirSize = NoDirSize
  /\ c_archive = NoArchive
  /\ c_bar = NoBar
  /\ c_config = NoConfig
  /\ c_tmp = "untouched"
  /\ c_gates = 0
  /\ c_params = NoParams
  /\ s_pc = "idle"
  /\ s_tree = Dir("work", 0, "none", << >>)
  /\ s_result = NoDirSize
  /\ s_sized = {}
  /\ s_globbed = {}
  /\ t_pc = [i \in Invocations |-> "idle"]
  /\ t_src = [i \in Invocations |-> Root]
  /\ t_file = [f \in ZipFiles |-> NoTemp]
  /\ t_writers = [f \in ZipFiles |-> {}]
  /\ t_upload = [i \in Invocations |-> NoTemp]
  /\ p_pc = "idle"
  /\ p_in = NoInitInput
  /\ p_config = NoConfig
  /\ p_console = << >>
  /\ p_cb = << >>

NextPoll == WaitforCall \/ WaitforCb \/ WaitforInterval

SpecPoll == Init /\ [][NextPoll]_vars

NextMachines == LibWaitforCall \/ LibMethodCb

SpecMachines == Init /\ [][NextMachines]_vars

NextCreate ==
  \/ Create
  \/ DirectorySizeCb
  \/ ArchiveError
  \/ ArchiveWarning
  \/ ArchiveProgress
  \/ OutputClose
  \/ MethodCb
  \/ TailWaitforCb
  \/ TailLogsCb
  \/ TailShowCb

SpecCreate == Init /\ [][NextCreate]_vars

NextSize == SizeStart \/ SizeDone \/ GlobDone

SpecSize == Init /\ [][NextSize]_vars

NextTemp ==
  \E i \in Invocations : TempBegin(i) \/ TempZipFunc(i) \/ TempClose(i) \/ TempDone(i)

SpecTemp == Init /\ [][NextTemp]_vars

NextInit == ProjectInit

SpecInit == Init /\ [][NextInit]_vars

\* One invocation of either operation: jobs.create, or the machines.waitfor
\* poll sequence.
NextOnce == (c_pc = "idle" /\ NextPoll) \/ (~w_called /\ NextCreate)

SpecOnce == Init /\ [][NextOnce]_vars

\* ------------------------------------------------- claims: state poller

\* Two strings that differ at most in the case of their ASCII letters.
SameIgnoringCase(a, b) ==
  /\ Len(a) = Len(b)
  /\ \A i \in 1..Len(a) :
       \/ a[i] = b[i]
       \/ a[i] \in 65..90 /\ b[i] = a[i] + 32
       \/ b[i] \in 65..90 /\ a[i] = b[i] + 32

\* Response i is a record whose state is, character for character, the
\* requested state in lower case.
IsDesired(i) ==
  /\ w_hist[i].err = None
  /\ w_hist[i].machine.present
  /\ w_hist[i].machine.state = ToLowerCase(w_params)

\* The poll sequence ended by handing response i's record to cb.
MatchedAt(i) ==
  /\ i = Len(w_hist)
  /\ w_cb = <<CbCall(None, w_hist[i].machine)>>
  /\ w_inflight = 0
  /\ w_timer = 0

\* The poll sequence went on after response i: nothing was handed to cb, and
\* a later query, or the timer that leads to it, exists.
LoopedAt(i) ==
  /\ w_cb = << >> \/ i < Len(w_hist)
  /\ i < Len(w_hist) \/ w_timer + w_inflight = 1

\* C3 as stated: a record whose state equals the requested state ignoring
\* letter case, on either side, ends the poll sequence as matched.
C3_MatchIgnoringCase ==
  \A i \in 1..Len(w_hist) :
    (/\ w_hist[i].err = None
     /\ w_hist[i].machine.present
     /\ SameIgnoringCase(w_hist[i].machine.state, w_params))
      => MatchedAt(i)

\* C3: the poller takes its matched transition exactly when the record's
\* state is identical to the requested state converted to lower case (the
\* case of the requested state is ignored, the server's state is compared as
\* it is), and self-loops on every other successful response.
C3_MatchLoweredParam ==
  \A i \in 1..Len(w_hist) :
    w_hist[i].err = None =>
      /\ IsDesired(i) => MatchedAt(i)
      /\ ~IsDesired(i) => LoopedAt(i)

\* A request spelled with capitals was matched by a lower-case record.
C3_Witness ==
  /\ w_params # ToLowerCase(w_params)
  /\ Len(w_hist) >= 1
  /\ IsDesired(Len(w_hist))
  /\ MatchedAt(Len(w_hist))

\* C4: a query error goes to cb at once and ends the poll sequence (it is the
\* last response, no query is in flight, no timer is pending); a timer is
\* pending only after a successful response that is not the desired one.
C4_ErrorEndsPolling ==
  /\ \A i \in 1..Len(w_hist) :
       w_hist[i].err # None =>
         /\ i = Len(w_hist)
         /\ w_cb = <<CbCall(w_hist[i].err, NullMachine)>>
         /\ w_inflight = 0
         /\ w_timer = 0
         /\ w_queries = i
  /\ w_timer > 0 =>
       /\ Len(w_hist) >= 1
       /\ w_hist[Len(w_hist)].err = None
       /\ ~IsDesired(Len(w_hist))

\* A second query failed and the error reached cb.
C4_Witness ==
  /\ Len(w_hist) = 2
  /\ w_hist[2].err # None
  /\ w_cb = <<CbCall(w_hist[2].err, NullMachine)>>

\* The requested state is one of off, serviceready, ready in some spelling.
LegalIgnoringCase(s) ==
  \E l \in {Str_off, Str_serviceready, Str_ready} : SameIgnoringCase(s, l)

\* C5: with a missing or illegal desired state the poller calls cb once with
\* an error and never issues a query.
C5_InvalidStateNoQuery ==
  (w_called /\ (w_params = Str_empty \/ ~LegalIgnoringCase(w_params))) =>
    /\ w_queries = 0
    /\ w_inflight = 0
    /\ w_timer = 0
    /\ w_hist = << >>
    /\ Len(w_cb) = 1
    /\ w_cb[1].err # None

\* An illegal state ('on') was rejected.
C5_Witness ==
  /\ w_called
  /\ w_params = Str_on
  /\ Len(w_cb) = 1
  /\ w_queries = 0

\* C6: at most one of {a query in flight, a retry timer pending} exists, and
\* a timer is pending only when every query issued has been answered.
C6_Sequential ==
  /\ w_inflight + w_timer <= 1
  /\ w_timer > 0 => Len(w_hist) = w_queries
  /\ w_inflight > 0 => Len(w_hist) = w_queries - 1

\* A retry timer is pending after the second response.
C6_Witness ==
  /\ w_timer = 1
  /\ w_queries = 2
  /\ Len(w_hist) = 2

\* C7: after k records that are not the desired one and then a desired one,
\* exactly k+1 queries were issued, cb got the (k+1)-th record and nothing
\* is pending; after any number of records none of which is the desired one
\* the poller has not called cb and a retry is pending.
C7_QueriesUntilMatch ==
  LET n == Len(w_hist) IN
    (n >= 1 /\ \A i \in 1..(n - 1) : w_hist[i].err = None /\ ~IsDesired(i)) =>
      /\ IsDesired(n) =>
           /\ w_queries = n
           /\ MatchedAt(n)
      /\ (w_hist[n].err = None /\ ~IsDesired(n)) =>
           /\ w_cb = << >>
           /\ w_timer + w_inflight = 1

\* Two records not in the desired state, then the desired one: three queries.
C7_Witness ==
  /\ Len(w_hist) = 3
  /\ IsDesired(3)
  /\ w_queries = 3
  /\ w_cb = <<CbCall(None, w_hist[3].machine)>>

\* --------------------------------------------- claims: machines.waitfor

\* C8: cb is invoked with a machine record and no error only when the
\* record's state is the state that was asked for.
C8_SuccessOnlyInRequestedState ==
  \A i \in 1..Len(m_cb) :
    m_cb[i].err = None => m_cb[i].res.state = m_params

\* ------------------------------------------------- claims: upload gate

\* The size error reached the caller: printed and cb() in interactive mode,
\* cb(err) otherwise.
SizeErrorReported ==
  IF Interactive(c_in)
    THEN /\ c_cb = <<CbCall(None, NoJob)>>
         /\ \E i \in 1..Len(c_console) : c_console[i] = ErrTooLarge
    ELSE c_cb = <<CbCall(ErrTooLarge, NoJob)>>

\* C1: an artifact larger than the ceiling is never handed to the invoker:
\* once its size is known to exceed MAX_UPLOAD_SIZE the run has ended with
\* the size error and no remote call was or will be made, and every file
\* attached to a create request is within the ceiling.
C1_OversizedNeverInvoked ==
  /\ c_fileSize > MAX_UPLOAD_SIZE =>
       /\ c_calls = << >>
       /\ c_pc = "returned"
       /\ SizeErrorReported
  /\ \A i \in 1..Len(c_calls) :
       c_calls[i].file # NoFile => c_calls[i].file <= MAX_UPLOAD_SIZE

\* A zip workspace one byte over the ceiling was rejected.
C1_Witness ==
  /\ c_in.workspace = "zip"
  /\ c_fileSize = MAX_UPLOAD_SIZE + 1
  /\ c_pc = "returned"
  /\ c_calls = << >>

\* C2: the gate fails exactly when the size is strictly greater than the
\* ceiling: an artifact of at most MAX_UPLOAD_SIZE bytes is attached to the
\* create request, a larger one ends the run with the size error, for a zip
\* workspace and for a built archive alike.
C2_GateIffStrictlyGreater ==
  c_fileSize # NoFile =>
    /\ c_fileSize <= MAX_UPLOAD_SIZE <=>
         (Len(c_calls) >= 1 /\ c_calls[1] = [op |-> "create", file |-> c_fileSize])
    /\ c_fileSize > MAX_UPLOAD_SIZE <=> SizeErrorReported

\* An archive of exactly the ceiling, built from a directory, was uploaded.
C2_Witness ==
  /\ c_in.workspace = "dir"
  /\ c_fileSize = MAX_UPLOAD_SIZE
  /\ Len(c_calls) >= 1
  /\ c_calls[1].file = MAX_UPLOAD_SIZE

\* --------------------------------------- claims: log-tail coordinator

Steps == <<"create", "waitfor", "logs", "show">>

\* C9: the remote steps run in the order create, wait-for-Running, logs,
\* show; each is started only after the one before it answered without an
\* error; a step's error is the last thing that happens: no further step is
\* started and cb receives exactly that error.
C9_StepsInOrder ==
  /\ Len(c_calls) <= Len(Steps)
  /\ \A i \in 1..Len(c_calls) : c_calls[i].op = Steps[i]
  /\ Len(c_resps) \in {Len(c_calls) - 1, Len(c_calls)}
  /\ \A i \in 1..Len(c_resps) :
       /\ c_resps[i].op = Steps[i]
       /\ i < Len(c_calls) => c_resps[i].err = None
       /\ c_resps[i].err # None =>
            /\ c_resps[i].err = StepError[Steps[i]]
            /\ c_cb = <<CbCall(c_resps[i].err, NoJob)>>
            /\ c_pc = "returned"

\* The logs step failed: show was not started and cb got the logs error.
C9_Witness ==
  /\ Len(c_calls) = 3
  /\ Len(c_resps) = 3
  /\ c_resps[3].err = StepError.logs
  /\ c_cb = <<CbCall(StepError.logs, NoJob)>>

LogsStarted == Len(c_calls) >= 3 /\ c_calls[3].op = "logs"

\* C10 as stated: logs are streamed only when the wait-for-Running step
\* delivered a Running record.
C10_LogsOnlyWhenRunning ==
  LogsStarted => c_waitRes.state = "Running"

\* C10: when the record of the wait-for-Running step has a state other than
\* Running, Stopped or Failed, the coordinator calls cb() and starts no log
\* streaming; with Running, Stopped or Failed it streams the logs.
C10_LogsWhenRunningStoppedFailed ==
  /\ LogsStarted => c_waitRes.state \in {"Running", "Stopped", "Failed"}
  /\ (c_waitRes.present /\ c_waitRes.state # "") =>
       IF c_waitRes.state \in {"Running", "Stopped", "Failed"}
         THEN LogsStarted
         ELSE /\ Len(c_calls) = 2
              /\ c_cb = <<CbCall(None, NoJob)>>
              /\ c_pc = "returned"

\* Logs were started for a job that had already stopped.
C10_Witness ==
  /\ c_waitRes.state = "Stopped"
  /\ LogsStarted

\* ------------------------------------------------------------ claim C11

\* C11: log tailing happens in interactive command-line mode only.  When
\* create runs programmatically, or with json set, or with tail false, the
\* only remote call is the creation itself, and once it has succeeded the
\* caller's callback has received the created record, unchanged, exactly
\* once; in programmatic mode this holds even with tail true.
C11_TailOnlyInteractive ==
  (c_pc # "idle" /\ (~c_in.cli \/ c_in.json \/ c_in.tail = "false")) =>
    /\ \A i \in 1..Len(c_calls) : c_calls[i].op = "create"
    /\ (Len(c_resps) = 1 /\ c_resps[1].err = None) =>
         (c_pc = "returned" /\ c_cb = <<CbCall(None, c_createRes)>>)

\* A programmatic caller asked for tailing and got the created record.
C11_Witness ==
  /\ ~c_in.cli
  /\ c_in.tail = "true"
  /\ c_createRes.present
  /\ c_calls # << >>
  /\ c_cb = <<CbCall(None, c_createRes)>>

\* ------------------------------------------------------------ claim C12

\* C12: no failure path ends a jobs.create invocation without calling cb:
\* an invocation that has returned has invoked the callback.
C12_EveryReturnCallsCb == c_pc = "returned" => Len(c_cb) >= 1

\* ------------------------------------------------------------ claim C13

\* The errors create raises itself and hands to ifCliPrintErrorOnly.
LocalErrors ==
  {ErrContainerType, ErrWorkspaceType, ErrContainerMissing, ErrRootWorkspace,
   ErrWorkspaceAbsent, ErrWorkspaceKind, ErrTooLarge,
   ErrRootProject, ErrPsDirFile, ErrConfigFile}

Printed(e) == \E i \in 1..Len(c_console) : c_console[i] = e

\* C13 as stated: in interactive command-line mode no invocation of the
\* callback carries an error object.
C13_InteractiveNeverErrObject ==
  Interactive(c_in) => \A i \in 1..Len(c_cb) : c_cb[i].err = None

\* C13, amended: an error create raises itself (validation, workspace
\* checks, size ceiling) is printed and the callback invoked with nothing in
\* interactive mode, and passed to the callback as the error object
\* otherwise; an error delivered by a remote operation (create, waitfor,
\* logs, show) is passed to the callback as the error object in either mode.
C13_DeliveryByMode ==
  /\ \A i \in 1..Len(c_cb) :
       c_cb[i].err \in LocalErrors => ~Interactive(c_in)
  /\ (c_pc = "returned" /\ c_calls = << >>) =>
       IF Interactive(c_in)
         THEN /\ c_cb = <<CbCall(None, NoJob)>>
              /\ \E e \in LocalErrors : Printed(e)
         ELSE /\ Len(c_cb) = 1
              /\ c_cb[1].err \in LocalErrors
              /\ c_cb[1].res = NoJob
              /\ \A e \in LocalErrors : ~Printed(e)
  /\ \A i \in 1..Len(c_resps) :
       c_resps[i].err # None =>
         /\ c_cb = <<CbCall(c_resps[i].err, NoJob)>>
         /\ ~Printed(c_resps[i].err)

\* Interactive mode: a local error was printed and the callback got nothing.
C13_Witness ==
  /\ Interactive(c_in)
  /\ c_pc = "returned"
  /\ Printed(ErrWorkspaceAbsent)
  /\ c_cb = <<CbCall(None, NoJob)>>

\* ------------------------------------------------------------ claim C14

\* C14: a filesystem failure during the directory size computation is
\* fatal: it yields an error and no size, no archive is built, and the
\* remote invoker is not called.
C14_SizeFailureIsFatal ==
  c_dirSize.err # None =>
    /\ c_dirSize.size = NoSize
    /\ c_archive = NoArchive
    /\ c_calls = << >>

\* ------------------------------------------------------------ claim C15

\* C15: once the archiver has emitted 'error', the remote invoker is never
\* called for that invocation.
C15_ArchiveErrorIsFatal == c_archive.error => c_calls = << >>

\* ------------------------------------------------------------ claim C16

\* C16 as stated: whatever warning the archiver emits, archiving continues.
C16_WarningsNeverEscalate ==
  (c_archive.state = "open" /\ c_archive.warnings # {}) => c_pc = "archiving"

\* C16, amended: an ENOENT warning is logged and archiving continues to the
\* close of the output, the size gate and the remote invoker; a warning
\* with any other code is thrown from the listener, and no gate, remote
\* call or callback follows it.
C16_EnoentSkippedOthersThrown ==
  /\ (c_archive.state = "open" /\ "EOTHER" \notin c_archive.warnings) =>
       c_pc = "archiving"
  /\ "ENOENT" \in c_archive.warnings => Printed("ENOENT")
  /\ "EOTHER" \in c_archive.warnings =>
       /\ c_pc = "crashed"
       /\ c_archive.state = "open"
       /\ c_fileSize = NoFile
       /\ c_calls = << >>
       /\ c_cb = << >>

\* An ENOENT warning was logged and the archive went on to be uploaded.
C16_Witness ==
  /\ c_archive.warnings = {"ENOENT"}
  /\ c_archive.state = "closed"
  /\ c_calls # << >>

\* ------------------------------------------------------------ claim C17

\* C17: when the workspace is archived, the size gate and the remote
\* invoker run only once the output stream has closed, after finalize;
\* while the archive is open, whatever progress was reported, nothing has
\* been measured, uploaded or called back; and at most one creation request
\* is made.
C17_GateOnlyAfterClose ==
  /\ (c_in.workspace \in {"file", "dir"} /\ (c_fileSize # NoFile \/ c_calls # << >>)) =>
       (c_archive.state = "closed" /\ c_archive.finalized)
  /\ c_archive.state = "open" =>
       /\ c_archive.finalized
       /\ c_fileSize = NoFile
       /\ c_calls = << >>
       /\ c_cb = << >>
  /\ Cardinality({i \in 1..Len(c_calls) : c_calls[i].op = "create"}) <= 1

\* Progress has reported every byte, and the output has not closed yet.
C17_Witness ==
  /\ c_archive.state = "open"
  /\ c_pc = "archiving"
  /\ c_bar.prev_zipped = 30
  /\ Len(c_bar.ticks) = MaxProgress
  /\ c_calls = << >>

\* ------------------------------------------------------------ claim C18

\* The exclusion set of the specification.
ExclusionSet == {".git", ".gitignore"}

NamesOnPath(path) == {path[i] : i \in 1..Len(path)}

\* The entries of a tree, the root included, with no excluded name on their
\* path.
Kept(root) ==
  IF root.name \in ExclusionSet THEN {}
  ELSE {[path |-> << >>, node |-> root]} \cup
       {e \in Entries(root, << >>) : NamesOnPath(e.path) \cap ExclusionSet = {}}

RECURSIVE SumOfSizes(_)
SumOfSizes(entries) ==
  IF entries = {} THEN 0
  ELSE LET e == CHOOSE x \in entries : TRUE
       IN  e.node.size + SumOfSizes(entries \ {e})

Sized == s_pc \in {"sized", "archived"}

\* C18 as stated: directorySize(T) is the sum of the sizes of the files of
\* T that are neither excluded nor beneath an excluded directory.
C18_SumOfFileSizes ==
  (Sized /\ s_result.err = None) =>
    s_result.size = SumOfSizes({e \in Kept(s_tree) : e.node.kind = "file"})

\* C18, amended: when no fs call fails, directorySize(T) is the sum of the
\* stat sizes of all entries of T, files and directories, T itself
\* included, that are neither excluded nor beneath an excluded directory,
\* whatever the order readdir lists them in.
C18_SumOfStatSizes ==
  (Sized /\ s_result.err = None) =>
    s_result.size = SumOfSizes(Kept(s_tree))

\* The directory of the example: files of 10 and 20 bytes and an excluded
\* entry of 1000 bytes, in a directory whose own stat size is 4096.
C18_Witness ==
  /\ Sized
  /\ s_tree = Dir("work", 4096, "none",
                  <<File("a", 10, "none"), File(".env", 20, "none"),
                    File(".gitignore", 1000, "none")>>)
  /\ s_result = [err |-> None, size |-> 4096 + 30]

\* ------------------------------------------------------------ claim C19

\* C19: for every workspace directory, whatever its own name, an entry
\* beneath it contributes to directorySize if and only if archive.glob
\* includes it.
C19_SameExclusion ==
  (s_pc = "archived" /\ s_result.err = None) =>
    \A e \in Entries(s_tree, << >>) : e.path \in s_sized <=> e.path \in s_globbed

\* ------------------------------------------------------------ claim C20

\* C20: a jobs.create invocation that fails before or at the remote
\* creation leaves every stored key unchanged.
C20_StoreUnchangedOnFailure ==
  (/\ c_pc = "returned"
   /\ \/ c_calls = << >>
      \/ (Len(c_resps) >= 1 /\ c_resps[1].err # None)) =>
    c_store = OldStore

\* ------------------------------------------------------------ claim C21

\* No project was named by the caller or found in the project store.
NoProjectDefined(in) == in.project = "none" /\ ~in.stored

\* C21: in interactive command-line mode with no project defined, create
\* writes .ps_project/config.json with the project name; when the caller
\* passes init=false ('--init false') or names a project, create leaves
\* .ps_project and config.json as it found them.
C21_InitFalseOrProjectKeepsConfig ==
  c_pc # "idle" =>
    /\ (c_in.init \in {"false", "'false'"} \/ c_in.project = "name") =>
         c_config = PriorConfig(c_in)
    /\ (/\ Interactive(c_in)
        /\ NoProjectDefined(c_in)
        /\ c_in.init \in {"undefined", "true"}
        /\ c_in.cwd # Root
        /\ c_in.psdir # "file"
        /\ c_in.cfg # "other") =>
         c_config = [psdir |-> "dir", cfg |-> "file", project |-> Basename(c_in.cwd)]

\* ------------------------------------------------------------ claim C22

\* The conditions the input validation of create rejects.
ValidationCondition(in) ==
  \/ in.container \in {"object", "missing"}
  \/ in.workspace \in {"object", "root", "absent"}
  \/ (NoProjectDefined(in) /\ in.cwd = Root)

\* C22: an invocation whose input meets a validation condition reports the
\* error at once and ends: the callback has been invoked once, with the
\* error or after the error was printed, and there was no size computation,
\* no archive, no temp-file deletion and no remote call.
C22_ValidationErrorsTerminal ==
  (c_pc # "idle" /\ ValidationCondition(c_in)) =>
    /\ c_pc = "returned"
    /\ Len(c_cb) = 1
    /\ (c_cb[1].err \in LocalErrors \/ \E e \in LocalErrors : Printed(e))
    /\ c_calls = << >>
    /\ c_dirSize = NoDirSize
    /\ c_archive = NoArchive
    /\ c_tmp = "untouched"

\* ------------------------------------------------------------ claim C23

\* The input passes project defaulting and the parameter checks.
Routed == c_pc # "idle" /\ c_in.container = "string" /\ ProjectDefaulting(c_in).err = None

Invoked == c_calls # << >>

\* C23: create routes by workspace kind.  For 'none' or a link nothing is
\* archived, measured or attached, the request goes out with
\* params.workspace deleted, and workspaceFileName is the link for a link
\* and unset for 'none'.  An existing .zip or .gz is measured exactly once,
\* at once, and attached as it is.  Any other file or directory is archived
\* to the temp zip, which is measured exactly once, when the output has
\* closed, and is what the request attaches.
C23_RoutesByWorkspaceKind ==
  Routed =>
    /\ c_in.workspace \in {"none", "link"} =>
         /\ c_archive = NoArchive /\ c_tmp = "untouched" /\ c_dirSize = NoDirSize
         /\ c_gates = 0 /\ c_fileSize = NoFile
         /\ Invoked
         /\ c_calls[1].file = NoFile
         /\ c_params = [workspace |-> "deleted",
                        workspaceFileName |-> IF c_in.workspace = "link"
                                                THEN "link" ELSE "unset"]
    /\ c_in.workspace = "zip" =>
         /\ c_archive = NoArchive /\ c_tmp = "untouched" /\ c_dirSize = NoDirSize
         /\ c_gates = 1
         /\ Invoked => /\ c_calls[1].file = c_fileSize
                       /\ c_params = [workspace |-> "as-is", workspaceFileName |-> "basename"]
    /\ c_in.workspace \in {"file", "dir"} =>
         /\ c_tmp = "cleared"
         /\ c_gates = IF c_archive.state = "closed" THEN 1 ELSE 0
         /\ Invoked => /\ c_archive.state = "closed"
                       /\ c_calls[1].file = c_fileSize
                       /\ c_params = [workspace |-> "zip_file", workspaceFileName |-> "basename"]

\* A link went out with no file attached and the link as workspaceFileName.
C23_Witness ==
  /\ c_in.workspace = "link"
  /\ c_pc = "invoking"
  /\ c_params = [workspace |-> "deleted", workspaceFileName |-> "link"]

\* ------------------------------------------------------------ claim C25

RECURSIVE SumSeq(_)
SumSeq(s) == IF s = << >> THEN 0 ELSE Head(s) + SumSeq(Tail(s))

NonDecreasing(s) == \A i \in 1..Len(s) : (IF i = 1 THEN 0 ELSE s[i - 1]) <= s[i]

\* C25: the increments given to bar.tick add up, after every progress
\* event, to the latest cumulative processedBytes; they are all
\* non-negative when the cumulative counts never decrease; and none is
\* given unless the workspace is a directory and the mode interactive.
C25_TicksSumToProcessed ==
  /\ Len(c_bar.ticks) = Len(c_bar.seen)
  /\ c_bar.seen # << >> => SumSeq(c_bar.ticks) = c_bar.seen[Len(c_bar.seen)]
  /\ NonDecreasing(c_bar.seen) => \A i \in 1..Len(c_bar.ticks) : c_bar.ticks[i] >= 0
  /\ ~(Interactive(c_in) /\ c_in.workspace = "dir") => c_bar.ticks = << >>

\* Two progress events, 10 then 30 bytes processed: ticks of 10 and 20.
C25_Witness ==
  /\ c_bar.seen = <<10, 30>>
  /\ c_bar.ticks = <<10, 20>>

\* ------------------------------------------------------------ claim C24

BeneathGit(path) == \E i \in 1..(Len(path) - 1) : path[i] = ".git"

\* C24: the archive of a workspace directory holds no entry named .git or
\* .gitignore and nothing beneath a .git directory, and holds every other
\* entry of the directory at any depth, dot-prefixed ones included.
C24_ArchiveHoldsAllButVersionControl ==
  s_pc = "archived" =>
    /\ s_globbed \subseteq {e.path : e \in Entries(s_tree, << >>)}
    /\ \A e \in Entries(s_tree, << >>) :
         e.path \in s_globbed <=>
           ~(e.path[Len(e.path)] \in ExclusionSet \/ BeneathGit(e.path))

\* A directory with a hidden file, a .git directory and a subdirectory: the
\* archive holds .env, sub and sub/b, and nothing of .git.
C24_Witness ==
  /\ s_pc = "archived"
  /\ s_tree.children =
       <<File(".env", 20, "none"),
         Dir(".git", 4096, "none", <<File("HEAD", 1000, "none")>>),
         Dir("sub", 4096, "none", <<File(".gitignore", 1000, "none"), File("b", 20, "none")>>)>>
  /\ s_globbed = {<<".env">>, <<"sub">>, <<"sub", "b">>}

\* ------------------------------------------------------------ claim C26

\* C26: with invocations serialized per source path, no temp archive has
\* two write streams open on it at once, and what an invocation finds at
\* its zip_file when its output closes is there and holds its own bytes
\* only.
C26_OneWriterPerTempArchive ==
  /\ \A f \in ZipFiles : Cardinality(t_writers[f]) <= 1
  /\ \A i \in Invocations :
       t_pc[i] \in {"uploading", "done"} => t_upload[i] = [exists |-> TRUE, wrote |-> {i}]

\* ------------------------------------------------------------ claim C27

\* C27: one jobs.create invocation calls the caller's cb at most once, and
\* one machines.waitfor poll sequence calls its cb at most once, whatever
\* the order of archive events, responses and timers.
C27_CallbackAtMostOnce == Len(c_cb) <= 1 /\ Len(w_cb) <= 1

\* An archive that reported progress, warned, failed and closed, a job that
\* was created, awaited, logged and shown: cb was called, once.
C27_Witness ==
  /\ c_archive.error
  /\ c_archive.warnings # {}
  /\ c_bar.ticks # << >>
  /\ Len(c_resps) = 4
  /\ Len(c_cb) = 1

\* ------------------------------------------------------------ claim C28

\* The error conditions of project.init.
InitErrorCondition(in) ==
  \/ (in.name = "" /\ in.cwd = Root)
  \/ in.psdir = "file"
  \/ in.cfg = "other"

InitErrors == {ErrInitRootProject, ErrPsDirFile, ErrConfigFile}

\* C28: project.init writes config.json only when none of its error
\* conditions holds.  In an error case .ps_project is as it was and the
\* error is printed with cb() called empty in command-line mode, and passed
\* as cb(err) otherwise; on success config.json holds the project name, the
\* given one or the name of the cwd, and a programmatic caller receives
\* {project: name}.
C28_InitWritesOnlyWithoutError ==
  p_pc = "returned" =>
    IF InitErrorCondition(p_in)
      THEN /\ p_config = InitPriorConfig(p_in)
           /\ IF p_in.cli
                THEN /\ p_cb = <<CbCall(None, None)>>
                     /\ \E e \in InitErrors : p_console = <<e>>
                ELSE /\ Len(p_cb) = 1
                     /\ p_cb[1].err \in InitErrors
                     /\ p_cb[1].res = None
      ELSE LET name == IF p_in.name = "" THEN p_in.cwd[Len(p_in.cwd)] ELSE p_in.name IN
           /\ p_config = [psdir |-> "dir", cfg |-> "file", project |-> name]
           /\ p_cb = <<CbCall(None, IF p_in.cli THEN None ELSE [project |-> name])>>

====
